---- MODULE Spec2Model ----
(***************************************************************************)
(* AbstractTypeOrmDomainMutationEventService                               *)
(* (src/src/interface/entity-and-event.interface.ts).                      *)
(*                                                                         *)
(* Each invocation of create / update / delete is an async computation     *)
(* that suspends at every await.  One action of the model is one resumption*)
(* of that computation: the settlement of the awaited promise followed by  *)
(* the code that runs up to the next await.  The collaborators (transaction*)
(* service, subclass hook, event publisher, entity manager) are the        *)
(* environment: they resolve or reject each call nondeterministically.     *)
(* The transaction service follows its interface contract: it hands a new  *)
(* query runner to the work function, commits when the work function       *)
(* resolves, rolls back when it rejects and settles its own promise with   *)
(* the outcome.  Writes made through a query runner stay pending on that   *)
(* query runner until its transaction commits.                             *)
(***************************************************************************)
EXTENDS Integers, Sequences, FiniteSets

\* Number of invocations that may be in flight together.
NumInv == 2

Inv == 1..NumInv
Handles == 1..NumInv

\* Values the callers and the collaborators may supply.
DataValues == {"d1"}
IdValues == {"id1"}
HookEntities == {"en1"}
HookEvents == {"ev1"}
SavedEntities == {"en1", "en1s"}
HookErrors == {"eHook"}
PublishErrors == {"ePublish"}
SaveErrors == {"eSave"}
RemoveErrors == {"eRemove"}
AcquireErrors == {"eAcquire"}
CommitErrors == {"eCommit"}

VARIABLES
  op,         \* op[i]: which public method invocation i is
  argId,      \* argId[i]: the caller's id ("-" for create)
  argData,    \* argData[i]: the caller's data ("-" for delete)
  pc,         \* pc[i]: the await at which invocation i is suspended
  qr,         \* qr[i]: the queryRunner parameter of i's work function (0: none yet)
  pair,       \* pair[i]: { entity, event } destructured from the hook's result
  publisher,  \* publisher[i]: the query runner i's eventPublisher is bound to (0: none)
  updateVal,  \* updateVal[i]: the local `update` of the update work function
  work,       \* work[i]: the promise of i's work function
  promise,    \* promise[i]: the promise the public method returned to the caller
  calls,      \* calls[i]: the collaborator calls of i and their outcomes, in order
  nextHandle, \* one more than the number of query runners handed out so far
  txState,    \* txState[h]: state of the transaction of query runner h
  pending,    \* pending[h]: writes made through query runner h, not yet committed
  durable     \* committed writes

vars == << op, argId, argData, pc, qr, pair, publisher, updateVal, work, promise,
           calls, nextHandle, txState, pending, durable >>

Pending == [st |-> "pending", v |-> "-"]
Resolved(v) == [st |-> "resolved", v |-> v]
Rejected(e) == [st |-> "rejected", v |-> e]

NoPair == [entity |-> "-", event |-> "-"]

\* One entry of calls[i]: collaborator c, k in {"call","ok","fail"}, the query
\* runner involved, and up to two values (arguments, result or error).
Ev(c, k, h, a, b) == [c |-> c, k |-> k, h |-> h, a |-> a, b |-> b]

\* A write made on behalf of invocation i.
Write(i, kind, v) == [i |-> i, kind |-> kind, v |-> v]

Init ==
  /\ op = [i \in Inv |-> "none"]
  /\ argId = [i \in Inv |-> "-"]
  /\ argData = [i \in Inv |-> "-"]
  /\ pc = [i \in Inv |-> "idle"]
  /\ qr = [i \in Inv |-> 0]
  /\ pair = [i \in Inv |-> NoPair]
  /\ publisher = [i \in Inv |-> 0]
  /\ updateVal = [i \in Inv |-> "-"]
  /\ work = [i \in Inv |-> Pending]
  /\ promise = [i \in Inv |-> Pending]
  /\ calls = [i \in Inv |-> << >>]
  /\ nextHandle = 1
  /\ txState = [h \in Handles |-> "unused"]
  /\ pending = [h \in Handles |-> {}]
  /\ durable = {}

----
\* The public methods up to the call of transactionService.transaction.

\* Invocations are numbered in the order in which the caller makes them.
IsNextCall(i) ==
  /\ pc[i] = "idle"
  /\ \A j \in Inv : j < i => pc[j] # "idle"

\* create(data): calls transaction(work) and awaits it.
Create(i, d) ==
  /\ IsNextCall(i)
  /\ op' = [op EXCEPT ![i] = "create"]
  /\ argData' = [argData EXCEPT ![i] = d]
  /\ pc' = [pc EXCEPT ![i] = "acquire"]
  /\ UNCHANGED << argId, qr, pair, publisher, updateVal, work, promise, calls,
                  nextHandle, txState, pending, durable >>

\* update(id, data): calls transaction(work) and awaits it.
Update(i, id, d) ==
  /\ IsNextCall(i)
  /\ op' = [op EXCEPT ![i] = "update"]
  /\ argId' = [argId EXCEPT ![i] = id]
  /\ argData' = [argData EXCEPT ![i] = d]
  /\ pc' = [pc EXCEPT ![i] = "acquire"]
  /\ UNCHANGED << qr, pair, publisher, updateVal, work, promise, calls,
                  nextHandle, txState, pending, durable >>

\* delete(id): calls transaction(work), does not await or return its promise,
\* and falls off the end of the async function: the returned promise is
\* fulfilled with undefined at once.
Delete(i, id) ==
  /\ IsNextCall(i)
  /\ op' = [op EXCEPT ![i] = "delete"]
  /\ argId' = [argId EXCEPT ![i] = id]
  /\ pc' = [pc EXCEPT ![i] = "acquire"]
  /\ promise' = [promise EXCEPT ![i] = Resolved("void")]
  /\ UNCHANGED << argData, qr, pair, publisher, updateVal, work, calls,
                  nextHandle, txState, pending, durable >>

----
\* The transaction service (transactionService.transaction).

\* Variant of CallerPromise: delete awaits and returns the transaction's
\* promise like create and update.
CallerPromiseAwaited(i, outcome) == outcome

\* What the caller's promise becomes when the transaction's promise settles
\* with `outcome`: create and update await it and return its value; delete
\* dropped it, so the caller's promise keeps the value it already has.
CallerPromise(i, outcome) ==
  IF op[i] \in {"create", "update"} THEN outcome ELSE promise[i]

\* The transaction service starts a transaction on a new query runner and
\* calls the work function with it.  Every call of transaction() gets a
\* query runner of its own; it is named after the invocation that made the
\* call.
TxOpen(i) ==
  /\ pc[i] = "acquire"
  /\ nextHandle \in Handles
  /\ qr' = [qr EXCEPT ![i] = i]
  /\ txState' = [txState EXCEPT ![i] = "active"]
  /\ nextHandle' = nextHandle + 1
  /\ pc' = [pc EXCEPT ![i] = "opened"]
  /\ UNCHANGED << op, argId, argData, pair, publisher, updateVal, work, promise,
                  calls, pending, durable >>

\* The transaction service fails to acquire a transaction: the work function
\* is never called and the transaction's promise rejects with e.
TxAcquireFail(i, e) ==
  /\ pc[i] = "acquire"
  /\ promise' = [promise EXCEPT ![i] = CallerPromise(i, Rejected(e))]
  /\ calls' = [calls EXCEPT ![i] = Append(@, Ev("transaction", "fail", 0, e, "-"))]
  /\ pc' = [pc EXCEPT ![i] = "done"]
  /\ UNCHANGED << op, argId, argData, qr, pair, publisher, updateVal, work,
                  nextHandle, txState, pending, durable >>

\* The work function resolved: the transaction commits, its pending writes
\* become durable, and the transaction's promise resolves with the work
\* function's value.
TxCommit(i) ==
  /\ pc[i] = "closing"
  /\ work[i].st = "resolved"
  /\ txState' = [txState EXCEPT ![qr[i]] = "committed"]
  /\ durable' = durable \cup pending[qr[i]]
  /\ pending' = [pending EXCEPT ![qr[i]] = {}]
  /\ promise' = [promise EXCEPT ![i] = CallerPromise(i, Resolved(work[i].v))]
  /\ pc' = [pc EXCEPT ![i] = "done"]
  /\ UNCHANGED << op, argId, argData, qr, pair, publisher, updateVal, work,
                  calls, nextHandle >>

\* The work function resolved but the commit fails with e: nothing becomes
\* durable and the transaction's promise rejects with e.
TxCommitFail(i, e) ==
  /\ pc[i] = "closing"
  /\ work[i].st = "resolved"
  /\ txState' = [txState EXCEPT ![qr[i]] = "rolledback"]
  /\ pending' = [pending EXCEPT ![qr[i]] = {}]
  /\ promise' = [promise EXCEPT ![i] = CallerPromise(i, Rejected(e))]
  /\ calls' = [calls EXCEPT ![i] = Append(@, Ev("transaction", "fail", qr[i], e, "-"))]
  /\ pc' = [pc EXCEPT ![i] = "done"]
  /\ UNCHANGED << op, argId, argData, qr, pair, publisher, updateVal, work,
                  nextHandle, durable >>

\* The work function rejected: the transaction rolls back, its pending
\* writes are discarded, and the transaction's promise rejects with the work
\* function's error.
TxRollback(i) ==
  /\ pc[i] = "closing"
  /\ work[i].st = "rejected"
  /\ txState' = [txState EXCEPT ![qr[i]] = "rolledback"]
  /\ pending' = [pending EXCEPT ![qr[i]] = {}]
  /\ promise' = [promise EXCEPT ![i] = CallerPromise(i, Rejected(work[i].v))]
  /\ pc' = [pc EXCEPT ![i] = "done"]
  /\ UNCHANGED << op, argId, argData, qr, pair, publisher, updateVal, work,
                  calls, nextHandle, durable >>

----
\* The work functions.

\* Variant of CallHook: the hook is given the id in the place of the data.
CallHookIdForData(i) ==
  /\ pc[i] = "opened"
  /\ calls' = [calls EXCEPT ![i] =
                 Append(@, Ev("hook", "call", qr[i], argId[i], argId[i]))]
  /\ pc' = [pc EXCEPT ![i] = "awaitHook"]
  /\ UNCHANGED << op, argId, argData, qr, pair, publisher, updateVal, work,
                  promise, nextHandle, txState, pending, durable >>

\* The work function starts: it calls the subclass hook of its operation
\* with the query runner and the caller's arguments, and awaits it.
CallHook(i) ==
  /\ pc[i] = "opened"
  /\ calls' = [calls EXCEPT ![i] =
                 Append(@, Ev("hook", "call", qr[i], argId[i], argData[i]))]
  /\ pc' = [pc EXCEPT ![i] = "awaitHook"]
  /\ UNCHANGED << op, argId, argData, qr, pair, publisher, updateVal, work,
                  promise, nextHandle, txState, pending, durable >>

\* Variant of Throw: the error is caught inside the work function, which then
\* completes normally.
ThrowSwallowed(i, c, e) ==
  /\ calls' = [calls EXCEPT ![i] = Append(@, Ev(c, "fail", qr[i], e, "-"))]
  /\ work' = [work EXCEPT ![i] = Resolved(updateVal[i])]
  /\ pc' = [pc EXCEPT ![i] = "closing"]
  /\ UNCHANGED << op, argId, argData, qr, pair, publisher, updateVal, promise,
                  nextHandle, txState, pending, durable >>

\* Variant of Throw: the rejection is caught by a handler that never
\* completes, so the work function's promise never settles.
ThrowNeverSettles(i, c, e) ==
  /\ calls' = [calls EXCEPT ![i] = Append(@, Ev(c, "fail", qr[i], e, "-"))]
  /\ pc' = [pc EXCEPT ![i] = "stuck"]
  /\ UNCHANGED << op, argId, argData, qr, pair, publisher, updateVal, work,
                  promise, nextHandle, txState, pending, durable >>

\* An awaited call rejects with e: the await throws, nothing catches it, the
\* work function's promise rejects with e.
Throw(i, c, e) ==
  /\ calls' = [calls EXCEPT ![i] = Append(@, Ev(c, "fail", qr[i], e, "-"))]
  /\ work' = [work EXCEPT ![i] = Rejected(e)]
  /\ pc' = [pc EXCEPT ![i] = "closing"]
  /\ UNCHANGED << op, argId, argData, qr, pair, publisher, updateVal, promise,
                  nextHandle, txState, pending, durable >>

\* Variant of HookReject: the hook's error is caught.
HookRejectSwallowed(i, e) ==
  /\ pc[i] = "awaitHook"
  /\ ThrowSwallowed(i, "hook", e)

HookReject(i, e) ==
  /\ pc[i] = "awaitHook"
  /\ Throw(i, "hook", e)

\* Variant of PublishReject: the publisher's error is caught.
PublishRejectSwallowed(i, e) ==
  /\ pc[i] = "awaitPublish"
  /\ ThrowSwallowed(i, "publish", e)

PublishReject(i, e) ==
  /\ pc[i] = "awaitPublish"
  /\ Throw(i, "publish", e)

\* Variant of SaveReject: the entity manager's error is caught.
SaveRejectSwallowed(i, e) ==
  /\ pc[i] = "awaitSave"
  /\ ThrowSwallowed(i, "save", e)

\* Variant of SaveReject: update catches the save error and goes on to
\* publish the event.
SaveRejectContinues(i, e) ==
  /\ pc[i] = "awaitSave"
  /\ IF op[i] = "update"
     THEN /\ calls' = [calls EXCEPT ![i] = @ \o
                 << Ev("save", "fail", qr[i], e, "-"),
                    Ev("publish", "call", publisher[i], pair[i].event, "-") >>]
          /\ pc' = [pc EXCEPT ![i] = "awaitPublish"]
          /\ UNCHANGED << op, argId, argData, qr, pair, publisher, updateVal,
                          work, promise, nextHandle, txState, pending, durable >>
     ELSE Throw(i, "save", e)

SaveReject(i, e) ==
  /\ pc[i] = "awaitSave"
  /\ Throw(i, "save", e)

RemoveReject(i, e) ==
  /\ pc[i] = "awaitRemove"
  /\ Throw(i, "remove", e)

\* Variant of PublisherOptions: the query runner is read from a field shared
\* by all invocations, which another invocation may have set.
PublisherOptionsShared(i) ==
  IF \E j \in Inv : j # i /\ qr[j] # 0
  THEN qr[CHOOSE j \in Inv : j # i /\ qr[j] # 0]
  ELSE qr[i]

\* The query runner given to eventPublisherFactory.create.
PublisherOptions(i) == qr[i]

\* Variant of CreateAfterHook: the entity is saved right after the hook and
\* the event is never published.
CreateAfterHookNoPublish(i, en, ev) ==
  /\ pc[i] = "awaitHook"
  /\ op[i] = "create"
  /\ pair' = [pair EXCEPT ![i] = [entity |-> en, event |-> ev]]
  /\ publisher' = [publisher EXCEPT ![i] = qr[i]]
  /\ calls' = [calls EXCEPT ![i] = @ \o
       << Ev("hook", "ok", qr[i], en, ev),
          Ev("factory", "call", qr[i], "-", "-"),
          Ev("save", "call", qr[i], en, "-") >>]
  /\ pc' = [pc EXCEPT ![i] = "awaitSave"]
  /\ UNCHANGED << op, argId, argData, qr, updateVal, work, promise,
                  nextHandle, txState, pending, durable >>

\* Variant of CreateAfterHook: publish(event) is called without await, so
\* save is called while the publish is still outstanding.
CreateAfterHookNoAwait(i, en, ev) ==
  /\ pc[i] = "awaitHook"
  /\ op[i] = "create"
  /\ pair' = [pair EXCEPT ![i] = [entity |-> en, event |-> ev]]
  /\ publisher' = [publisher EXCEPT ![i] = qr[i]]
  /\ calls' = [calls EXCEPT ![i] = @ \o
       << Ev("hook", "ok", qr[i], en, ev),
          Ev("factory", "call", qr[i], "-", "-"),
          Ev("publish", "call", qr[i], ev, "-"),
          Ev("save", "call", qr[i], en, "-") >>]
  /\ pc' = [pc EXCEPT ![i] = "awaitSave"]
  /\ UNCHANGED << op, argId, argData, qr, updateVal, work, promise,
                  nextHandle, txState, pending, durable >>

\* create, hook resolved with { entity, event }: create the publisher on the
\* query runner, call publish(event) and await it.
CreateAfterHook(i, en, ev) ==
  /\ pc[i] = "awaitHook"
  /\ op[i] = "create"
  /\ pair' = [pair EXCEPT ![i] = [entity |-> en, event |-> ev]]
  /\ publisher' = [publisher EXCEPT ![i] = PublisherOptions(i)]
  /\ calls' = [calls EXCEPT ![i] = @ \o
       << Ev("hook", "ok", qr[i], en, ev),
          Ev("factory", "call", PublisherOptions(i), "-", "-"),
          Ev("publish", "call", PublisherOptions(i), ev, "-") >>]
  /\ pc' = [pc EXCEPT ![i] = "awaitPublish"]
  /\ UNCHANGED << op, argId, argData, qr, updateVal, work, promise,
                  nextHandle, txState, pending, durable >>

\* Variant of UpdateAfterHook: the event is published right after the hook
\* and the entity is never saved.
UpdateAfterHookNoSave(i, en, ev) ==
  /\ pc[i] = "awaitHook"
  /\ op[i] = "update"
  /\ pair' = [pair EXCEPT ![i] = [entity |-> en, event |-> ev]]
  /\ publisher' = [publisher EXCEPT ![i] = qr[i]]
  /\ calls' = [calls EXCEPT ![i] = @ \o
       << Ev("hook", "ok", qr[i], en, ev),
          Ev("factory", "call", qr[i], "-", "-"),
          Ev("publish", "call", qr[i], ev, "-") >>]
  /\ pc' = [pc EXCEPT ![i] = "awaitPublish"]
  /\ UNCHANGED << op, argId, argData, qr, updateVal, work, promise,
                  nextHandle, txState, pending, durable >>

\* update, hook resolved: create the publisher, call manager.save(entity) and
\* await it.
UpdateAfterHook(i, en, ev) ==
  /\ pc[i] = "awaitHook"
  /\ op[i] = "update"
  /\ pair' = [pair EXCEPT ![i] = [entity |-> en, event |-> ev]]
  /\ publisher' = [publisher EXCEPT ![i] = PublisherOptions(i)]
  /\ calls' = [calls EXCEPT ![i] = @ \o
       << Ev("hook", "ok", qr[i], en, ev),
          Ev("factory", "call", PublisherOptions(i), "-", "-"),
          Ev("save", "call", qr[i], en, "-") >>]
  /\ pc' = [pc EXCEPT ![i] = "awaitSave"]
  /\ UNCHANGED << op, argId, argData, qr, updateVal, work, promise,
                  nextHandle, txState, pending, durable >>

\* Variant of DeleteAfterHook: the entity is removed right after the hook and
\* the event is never published.
DeleteAfterHookNoPublish(i, en, ev) ==
  /\ pc[i] = "awaitHook"
  /\ op[i] = "delete"
  /\ pair' = [pair EXCEPT ![i] = [entity |-> en, event |-> ev]]
  /\ publisher' = [publisher EXCEPT ![i] = qr[i]]
  /\ calls' = [calls EXCEPT ![i] = @ \o
       << Ev("hook", "ok", qr[i], en, ev),
          Ev("factory", "call", qr[i], "-", "-"),
          Ev("remove", "call", qr[i], en, "-") >>]
  /\ pc' = [pc EXCEPT ![i] = "awaitRemove"]
  /\ UNCHANGED << op, argId, argData, qr, updateVal, work, promise,
                  nextHandle, txState, pending, durable >>

\* delete, hook resolved: create the publisher, call publish(event) and
\* await it.
DeleteAfterHook(i, en, ev) ==
  /\ pc[i] = "awaitHook"
  /\ op[i] = "delete"
  /\ pair' = [pair EXCEPT ![i] = [entity |-> en, event |-> ev]]
  /\ publisher' = [publisher EXCEPT ![i] = PublisherOptions(i)]
  /\ calls' = [calls EXCEPT ![i] = @ \o
       << Ev("hook", "ok", qr[i], en, ev),
          Ev("factory", "call", PublisherOptions(i), "-", "-"),
          Ev("publish", "call", PublisherOptions(i), ev, "-") >>]
  /\ pc' = [pc EXCEPT ![i] = "awaitPublish"]
  /\ UNCHANGED << op, argId, argData, qr, updateVal, work, promise,
                  nextHandle, txState, pending, durable >>

\* The call invocation i is suspended on: the last entry of calls[i].
Awaited(i) == calls[i][Len(calls[i])]

\* The collaborator completes the awaited publish / save / remove: the write
\* is pending on the query runner the call went to.
Written(i, kind) ==
  [pending EXCEPT ![Awaited(i).h] = @ \cup {Write(i, kind, Awaited(i).a)}]

\* create, publish resolved: `return queryRunner.manager.save(entity)`.
CreateAfterPublish(i) ==
  /\ pc[i] = "awaitPublish"
  /\ op[i] = "create"
  /\ pending' = Written(i, "event")
  /\ calls' = [calls EXCEPT ![i] = @ \o
       << Ev("publish", "ok", Awaited(i).h, "-", "-"),
          Ev("save", "call", qr[i], pair[i].entity, "-") >>]
  /\ pc' = [pc EXCEPT ![i] = "awaitSave"]
  /\ UNCHANGED << op, argId, argData, qr, pair, publisher, updateVal, work,
                  promise, nextHandle, txState, durable >>

\* Variant of CreateAfterSave: the work function returns the entity it gave
\* to save instead of the value save returned.
CreateAfterSaveReturnsInput(i, saved) ==
  /\ pc[i] = "awaitSave"
  /\ op[i] = "create"
  /\ pending' = [pending EXCEPT ![qr[i]] = @ \cup {Write(i, "entity", pair[i].entity)}]
  /\ calls' = [calls EXCEPT ![i] = Append(@, Ev("save", "ok", qr[i], saved, "-"))]
  /\ work' = [work EXCEPT ![i] = Resolved(pair[i].entity)]
  /\ pc' = [pc EXCEPT ![i] = "closing"]
  /\ UNCHANGED << op, argId, argData, qr, pair, publisher, updateVal, promise,
                  nextHandle, txState, durable >>

\* create, save resolved with `saved`: the work function's promise resolves
\* with the value of the returned save promise.
CreateAfterSave(i, saved) ==
  /\ pc[i] = "awaitSave"
  /\ op[i] = "create"
  /\ pending' = Written(i, "entity")
  /\ calls' = [calls EXCEPT ![i] = Append(@, Ev("save", "ok", Awaited(i).h, saved, "-"))]
  /\ work' = [work EXCEPT ![i] = Resolved(saved)]
  /\ pc' = [pc EXCEPT ![i] = "closing"]
  /\ UNCHANGED << op, argId, argData, qr, pair, publisher, updateVal, promise,
                  nextHandle, txState, durable >>

\* update, save resolved with `saved`: update = saved; console.log(update);
\* call publish(event) and await it.
UpdateAfterSave(i, saved) ==
  /\ pc[i] = "awaitSave"
  /\ op[i] = "update"
  /\ pending' = Written(i, "entity")
  /\ updateVal' = [updateVal EXCEPT ![i] = saved]
  /\ calls' = [calls EXCEPT ![i] = @ \o
       << Ev("save", "ok", Awaited(i).h, saved, "-"),
          Ev("publish", "call", publisher[i], pair[i].event, "-") >>]
  /\ pc' = [pc EXCEPT ![i] = "awaitPublish"]
  /\ UNCHANGED << op, argId, argData, qr, pair, publisher, work, promise,
                  nextHandle, txState, durable >>

\* update, publish resolved: `return update`.
UpdateAfterPublish(i) ==
  /\ pc[i] = "awaitPublish"
  /\ op[i] = "update"
  /\ pending' = Written(i, "event")
  /\ calls' = [calls EXCEPT ![i] = Append(@, Ev("publish", "ok", Awaited(i).h, "-", "-"))]
  /\ work' = [work EXCEPT ![i] = Resolved(updateVal[i])]
  /\ pc' = [pc EXCEPT ![i] = "closing"]
  /\ UNCHANGED << op, argId, argData, qr, pair, publisher, updateVal, promise,
                  nextHandle, txState, durable >>

\* delete, publish resolved: `return queryRunner.manager.remove(entity)`.
DeleteAfterPublish(i) ==
  /\ pc[i] = "awaitPublish"
  /\ op[i] = "delete"
  /\ pending' = Written(i, "event")
  /\ calls' = [calls EXCEPT ![i] = @ \o
       << Ev("publish", "ok", Awaited(i).h, "-", "-"),
          Ev("remove", "call", qr[i], pair[i].entity, "-") >>]
  /\ pc' = [pc EXCEPT ![i] = "awaitRemove"]
  /\ UNCHANGED << op, argId, argData, qr, pair, publisher, updateVal, work,
                  promise, nextHandle, txState, durable >>

\* delete, remove resolved with the removed entity: the work function's
\* promise resolves with it.
DeleteAfterRemove(i) ==
  /\ pc[i] = "awaitRemove"
  /\ op[i] = "delete"
  /\ pending' = Written(i, "entity")
  /\ calls' = [calls EXCEPT ![i] =
                 Append(@, Ev("remove", "ok", Awaited(i).h, Awaited(i).a, "-"))]
  /\ work' = [work EXCEPT ![i] = Resolved(Awaited(i).a)]
  /\ pc' = [pc EXCEPT ![i] = "closing"]
  /\ UNCHANGED << op, argId, argData, qr, pair, publisher, updateVal, promise,
                  nextHandle, txState, durable >>

----
Next ==
  \/ \E i \in Inv, d \in DataValues : Create(i, d)
  \/ \E i \in Inv, id \in IdValues, d \in DataValues : Update(i, id, d)
  \/ \E i \in Inv, id \in IdValues : Delete(i, id)
  \/ \E i \in Inv : TxOpen(i)
  \/ \E i \in Inv, e \in AcquireErrors : TxAcquireFail(i, e)
  \/ \E i \in Inv : CallHook(i)
  \/ \E i \in Inv, e \in HookErrors : HookReject(i, e)
  \/ \E i \in Inv, en \in HookEntities, ev \in HookEvents : CreateAfterHook(i, en, ev)
  \/ \E i \in Inv, en \in HookEntities, ev \in HookEvents : UpdateAfterHook(i, en, ev)
  \/ \E i \in Inv, en \in HookEntities, ev \in HookEvents : DeleteAfterHook(i, en, ev)
  \/ \E i \in Inv, e \in PublishErrors : PublishReject(i, e)
  \/ \E i \in Inv : CreateAfterPublish(i)
  \/ \E i \in Inv : UpdateAfterPublish(i)
  \/ \E i \in Inv : DeleteAfterPublish(i)
  \/ \E i \in Inv, e \in SaveErrors : SaveReject(i, e)
  \/ \E i \in Inv, saved \in SavedEntities : CreateAfterSave(i, saved)
  \/ \E i \in Inv, saved \in SavedEntities : UpdateAfterSave(i, saved)
  \/ \E i \in Inv, e \in RemoveErrors : RemoveReject(i, e)
  \/ \E i \in Inv : DeleteAfterRemove(i)
  \/ \E i \in Inv : TxCommit(i)
  \/ \E i \in Inv, e \in CommitErrors : TxCommitFail(i, e)
  \/ \E i \in Inv : TxRollback(i)

\* The steps of invocation i after the call: the settlement of the call it
\* awaits and the code that runs next.
Step(i) ==
  \/ TxOpen(i)
  \/ \E e \in AcquireErrors : TxAcquireFail(i, e)
  \/ CallHook(i)
  \/ \E e \in HookErrors : HookReject(i, e)
  \/ \E en \in HookEntities, ev \in HookEvents :
       CreateAfterHook(i, en, ev) \/ UpdateAfterHook(i, en, ev) \/ DeleteAfterHook(i, en, ev)
  \/ \E e \in PublishErrors : PublishReject(i, e)
  \/ CreateAfterPublish(i) \/ UpdateAfterPublish(i) \/ DeleteAfterPublish(i)
  \/ \E e \in SaveErrors : SaveReject(i, e)
  \/ \E saved \in SavedEntities : CreateAfterSave(i, saved) \/ UpdateAfterSave(i, saved)
  \/ \E e \in RemoveErrors : RemoveReject(i, e)
  \/ DeleteAfterRemove(i)
  \/ TxCommit(i)
  \/ \E e \in CommitErrors : TxCommitFail(i, e)
  \/ TxRollback(i)

Spec == Init /\ [][Next]_vars

\* Every collaborator call eventually resolves or rejects and the scheduler
\* eventually runs every continuation: a started invocation that can take a
\* step eventually takes one.
FairSpec == Spec /\ \A i \in Inv : WF_vars(Step(i))

----
\* Reading calls[i].

\* Positions in calls[i] of the entries (c, k).
Idx(i, c, k) == { n \in DOMAIN calls[i] : calls[i][n].c = c /\ calls[i][n].k = k }

Count(i, c, k) == Cardinality(Idx(i, c, k))

\* Every (c1, k1) entry of calls[i] lies before every (c2, k2) entry.
Before(i, c1, k1, c2, k2) ==
  \A m \in Idx(i, c1, k1), n \in Idx(i, c2, k2) : m < n

EntityDurable(i) == \E w \in durable : w.i = i /\ w.kind = "entity"
EventDurable(i) == \E w \in durable : w.i = i /\ w.kind = "event"

\* C1 - Atomicity: once the transaction of an invocation has closed, the
\* durable state contains the invocation's entity mutation if and only if it
\* contains the invocation's event, whatever steps succeeded or failed.
C1_Atomicity ==
  \A i \in Inv : pc[i] = "done" => (EntityDurable(i) <=> EventDurable(i))

\* Two invocations have closed: one committed entity and event, the other is
\* an update whose save succeeded and whose publish failed.
C1_Witness ==
  \E i, j \in Inv :
    /\ pc[i] = "done" /\ EntityDurable(i) /\ EventDurable(i)
    /\ pc[j] = "done" /\ op[j] = "update"
    /\ Count(j, "save", "ok") = 1 /\ Count(j, "publish", "fail") = 1
    /\ ~EntityDurable(j) /\ ~EventDurable(j)

\* C2 - A create whose work function ran without a failure made exactly one
\* publish call and exactly one save call, no remove call, and the publish
\* call had completed before the save call was issued.
C2_CreateCalls ==
  \A i \in Inv :
    (op[i] = "create" /\ work[i].st = "resolved") =>
      /\ Count(i, "publish", "call") = 1
      /\ Count(i, "publish", "ok") = 1
      /\ Count(i, "save", "call") = 1
      /\ Count(i, "remove", "call") = 0
      /\ Before(i, "publish", "ok", "save", "call")

C2_Witness ==
  \E i \in Inv :
    /\ op[i] = "create" /\ pc[i] = "done" /\ promise[i].st = "resolved"
    /\ Count(i, "publish", "ok") = 1 /\ Count(i, "save", "ok") = 1

\* C3 - An update whose work function ran without a failure made exactly one
\* save call and exactly one publish call, no remove call, and the save call
\* had completed before the publish call was issued.
C3_UpdateCalls ==
  \A i \in Inv :
    (op[i] = "update" /\ work[i].st = "resolved") =>
      /\ Count(i, "save", "call") = 1
      /\ Count(i, "save", "ok") = 1
      /\ Count(i, "publish", "call") = 1
      /\ Count(i, "remove", "call") = 0
      /\ Before(i, "save", "ok", "publish", "call")

C3_Witness ==
  \E i \in Inv :
    /\ op[i] = "update" /\ pc[i] = "done" /\ promise[i].st = "resolved"
    /\ Count(i, "save", "ok") = 1 /\ Count(i, "publish", "ok") = 1

\* C4 - A delete whose work function ran without a failure made exactly one
\* publish call followed by exactly one remove call, no save call, the
\* publish completing before the remove was issued, and the operation's
\* promise is resolved with no value.
C4_DeleteCalls ==
  \A i \in Inv :
    (op[i] = "delete" /\ work[i].st = "resolved") =>
      /\ Count(i, "publish", "call") = 1
      /\ Count(i, "publish", "ok") = 1
      /\ Count(i, "remove", "call") = 1
      /\ Count(i, "save", "call") = 0
      /\ Before(i, "publish", "ok", "remove", "call")
      /\ promise[i] = Resolved("void")

C4_Witness ==
  \E i \in Inv :
    /\ op[i] = "delete" /\ pc[i] = "done"
    /\ Count(i, "publish", "ok") = 1 /\ Count(i, "remove", "ok") = 1
    /\ txState[qr[i]] = "committed"

\* C5 - If the hook rejects, the invocation makes no save, no remove and no
\* publish call, its work function rejects, and its transaction is never
\* committed and ends rolled back.
C5_HookRejects ==
  \A i \in Inv :
    Count(i, "hook", "fail") > 0 =>
      /\ Count(i, "save", "call") = 0
      /\ Count(i, "remove", "call") = 0
      /\ Count(i, "publish", "call") = 0
      /\ work[i].st = "rejected"
      /\ txState[qr[i]] # "committed"
      /\ pc[i] = "done" => txState[qr[i]] = "rolledback"

\* A hook has rejected and the transaction of that invocation has closed rolled back.
C5_Witness ==
  \E i \in Inv :
    /\ Count(i, "hook", "fail") = 1
    /\ pc[i] = "done" /\ txState[qr[i]] = "rolledback"

\* C6 - If the publish call rejects: in create and delete no save / remove
\* call is ever issued; in update the save that already ran is not committed;
\* in all three the transaction is never committed and ends rolled back.
C6_PublishRejects ==
  \A i \in Inv :
    Count(i, "publish", "fail") > 0 =>
      /\ op[i] \in {"create", "delete"} =>
           Count(i, "save", "call") = 0 /\ Count(i, "remove", "call") = 0
      /\ ~EntityDurable(i)
      /\ txState[qr[i]] # "committed"
      /\ pc[i] = "done" => txState[qr[i]] = "rolledback"

\* An update saved, its publish rejected, and its transaction has closed.
C6_Witness ==
  \E i \in Inv :
    /\ op[i] = "update" /\ Count(i, "save", "ok") = 1
    /\ Count(i, "publish", "fail") = 1
    /\ pc[i] = "done" /\ txState[qr[i]] = "rolledback"

\* C7 - If the save (create, update) or remove (delete) call rejects, the
\* invocation's event is never durable, also when it was already published
\* in the transaction: the transaction is never committed and ends rolled back.
C7_PersistRejects ==
  \A i \in Inv :
    (Count(i, "save", "fail") > 0 \/ Count(i, "remove", "fail") > 0) =>
      /\ ~EventDurable(i)
      /\ txState[qr[i]] # "committed"
      /\ pc[i] = "done" => txState[qr[i]] = "rolledback"

\* A create published its event, its save rejected, and its transaction has closed.
C7_Witness ==
  \E i \in Inv :
    /\ op[i] = "create" /\ Count(i, "publish", "ok") = 1
    /\ Count(i, "save", "fail") = 1
    /\ pc[i] = "done" /\ txState[qr[i]] = "rolledback"

\* C8 - Whenever the hook, the publish call, the save / remove call or the
\* transaction service fails with error e in an invocation, the promise of
\* that operation rejects with exactly e.
C8_ErrorsPropagate ==
  \A i \in Inv :
    pc[i] = "done" =>
      \A n \in DOMAIN calls[i] :
        calls[i][n].k = "fail" => promise[i] = Rejected(calls[i][n].a)

\* C9 - When create or update resolves, the value is the one the
\* invocation's save call returned, and the transaction has committed.
C9_ResolvesWithSaved ==
  \A i \in Inv :
    (op[i] \in {"create", "update"} /\ promise[i].st = "resolved") =>
      /\ Count(i, "save", "ok") = 1
      /\ \A n \in Idx(i, "save", "ok") : promise[i].v = calls[i][n].a
      /\ txState[qr[i]] = "committed"

\* A create and an update have resolved with a saved value that differs from
\* the entity their hook returned.
C9_Witness ==
  \E i, j \in Inv :
    /\ op[i] = "create" /\ promise[i].st = "resolved" /\ promise[i].v # pair[i].entity
    /\ op[j] = "update" /\ promise[j].st = "resolved" /\ promise[j].v # pair[j].entity

\* C10 - The query runner is owned by the invocation that acquired it: an
\* invocation passes only its own query runner to the hook, the publisher
\* factory, the publisher and the entity manager, no two invocations have the
\* same query runner, and an invocation makes no hook, publish, save or
\* remove call once the operation's own promise has completed.
C10_HandleOwned ==
  [][\A i \in Inv :
      /\ \A n \in DOMAIN calls'[i] :
           calls'[i][n].k = "call" => calls'[i][n].h = qr'[i]
      /\ \A j \in Inv : (j # i /\ qr'[i] # 0) => qr'[j] # qr'[i]
      /\ promise[i].st # "pending" =>
           \A n \in DOMAIN calls'[i] :
             n > Len(calls[i]) => calls'[i][n].k # "call"]_vars

\* C11 - delete is fire-and-forget: from the moment delete has been called its
\* promise is resolved with no value and stays so, whatever state its
\* transaction is in and whichever of the hook, publish, remove or commit
\* fails.
C11_DeleteFireAndForget ==
  \A i \in Inv : op[i] = "delete" => promise[i] = Resolved("void")

\* One delete has resolved while its transaction is active and its hook has
\* not yet answered; another delete has resolved although a step of its
\* transaction failed and the transaction has closed.
C11_Witness ==
  \E i, j \in Inv :
    /\ op[i] = "delete" /\ pc[i] = "awaitHook"
    /\ txState[qr[i]] = "active" /\ promise[i].st = "resolved"
    /\ op[j] = "delete" /\ pc[j] = "done"
    /\ \E n \in DOMAIN calls[j] : calls[j][n].k = "fail"
    /\ promise[j].st = "resolved"

\* The collaborators an invocation calls inside its transaction.
InTx == {"hook", "factory", "publish", "save", "remove"}

\* Every call of invocation i went to, or was bound to, i's own query runner.
SameHandle(i) ==
  \A n \in DOMAIN calls[i] :
    (calls[i][n].c \in InTx /\ calls[i][n].k = "call") => calls[i][n].h = qr[i]

\* Invocation i makes or completes a call in this step only while its
\* transaction is active, before and after the step.
CallsWhileActive(i) ==
  \A n \in DOMAIN calls'[i] :
    (n > Len(calls[i]) /\ calls'[i][n].c \in InTx) =>
      /\ qr[i] # 0
      /\ txState[qr[i]] = "active"
      /\ txState'[qr[i]] = "active"

\* C12 as stated - one query runner for hook, publisher and save / remove, a
\* publisher created exactly once in every invocation that was given a
\* transaction, and every call made while the transaction is active.
C12_Original ==
  [][\A i \in Inv :
      /\ SameHandle(i)'
      /\ (pc[i] = "done" /\ qr[i] # 0)' => (Count(i, "factory", "call") = 1)'
      /\ CallsWhileActive(i)]_vars

\* C12 - Within one invocation the hook, the publisher and save / remove get
\* the same query runner; a publisher is created at most once, exactly once
\* when the hook has resolved and never before; and every hook, publish and
\* save / remove call is made and completes while the transaction is active.
C12_SameHandleWhileActive ==
  [][\A i \in Inv :
      /\ SameHandle(i)'
      /\ (Count(i, "factory", "call") = Count(i, "hook", "ok"))'
      /\ (Count(i, "factory", "call") <= 1)'
      /\ CallsWhileActive(i)]_vars

\* Two invocations hold different active transactions and each has created
\* its publisher, published and persisted.
C12_Witness ==
  \E i, j \in Inv :
    /\ i # j
    /\ pc[i] = "closing" /\ work[i].st = "resolved"
    /\ pc[j] = "closing" /\ work[j].st = "resolved"
    /\ txState[qr[i]] = "active" /\ txState[qr[j]] = "active"

\* The steps of each operation's work function, in program order.
StepsOf(o) ==
  << <<"hook", "call">>, <<"hook", "ok">>, <<"factory", "call">> >> \o
  CASE o = "create" -> << <<"publish", "call">>, <<"publish", "ok">>,
                          <<"save", "call">>, <<"save", "ok">> >>
    [] o = "update" -> << <<"save", "call">>, <<"save", "ok">>,
                          <<"publish", "call">>, <<"publish", "ok">> >>
    [] o = "delete" -> << <<"publish", "call">>, <<"publish", "ok">>,
                          <<"remove", "call">>, <<"remove", "ok">> >>
    [] OTHER -> << >>

IsInTx(e) == e.c \in InTx

\* What invocation i did inside its transaction, in order.
TxCalls(i) == SelectSeq(calls[i], IsInTx)

\* TxCalls(i) follows the steps of i's operation one by one from the first:
\* each entry is the next step, except that the last entry may be the
\* failure of the call that the next step would have completed.
InSequence(i) ==
  /\ Len(TxCalls(i)) <= Len(StepsOf(op[i]))
  /\ \A n \in DOMAIN TxCalls(i) :
       \/ << TxCalls(i)[n].c, TxCalls(i)[n].k >> = StepsOf(op[i])[n]
       \/ /\ n = Len(TxCalls(i))
          /\ TxCalls(i)[n].k = "fail"
          /\ StepsOf(op[i])[n] = << TxCalls(i)[n].c, "ok" >>

\* The work function of i has run to its end or to a failure.
RanToEnd(i) ==
  \/ Len(TxCalls(i)) = Len(StepsOf(op[i]))
  \/ Len(TxCalls(i)) > 0 /\ TxCalls(i)[Len(TxCalls(i))].k = "fail"

\* C13 - Under any interleaving, each invocation runs its own steps in the
\* fixed order of its operation (hook; then publish, save for create; save,
\* publish for update; publish, remove for delete), each step starting only
\* after the previous one has completed; the steps start only after the
\* transaction was opened, and the transaction closes only after them.
C13_FixedSequence ==
  \A i \in Inv :
    /\ InSequence(i)
    /\ Len(TxCalls(i)) > 0 => qr[i] # 0
    /\ qr[i] # 0 =>
         /\ txState[qr[i]] # "unused"
         /\ txState[qr[i]] # "active" => RanToEnd(i)

\* A create and an update are in flight together, each past its first
\* persistence or publish step and suspended on its second.
C13_Witness ==
  \E i, j \in Inv :
    /\ op[i] = "create" /\ pc[i] = "awaitSave"
    /\ op[j] = "update" /\ pc[j] = "awaitPublish"
    /\ InSequence(i) /\ InSequence(j)

\* The hook, the publish call and the save / remove call of i all succeeded.
AllSucceeded(i) ==
  /\ Count(i, "hook", "ok") = 1
  /\ Count(i, "publish", "ok") = 1
  /\ Count(i, "save", "ok") + Count(i, "remove", "ok") = 1

\* The hook, the publish call or the save / remove call of i failed.
StepFailed(i) ==
  \E n \in DOMAIN calls[i] : calls[i][n].c \in InTx /\ calls[i][n].k = "fail"

\* The commit of i's transaction failed.
CommitFailed(i) ==
  \E n \in DOMAIN calls[i] :
    calls[i][n].c = "transaction" /\ calls[i][n].k = "fail" /\ calls[i][n].h # 0

\* C14 as stated - the transaction of a finished invocation is committed if
\* and only if hook, publish and save / remove all succeeded, and is rolled
\* back otherwise.
C14_Original ==
  \A i \in Inv :
    (pc[i] = "done" /\ qr[i] # 0) =>
      /\ txState[qr[i]] = "committed" <=> AllSucceeded(i)
      /\ txState[qr[i]] # "committed" => txState[qr[i]] = "rolledback"

\* C14 - Each invocation is given at most one transaction; the transaction
\* of a finished invocation is committed if and only if hook, publish and
\* save / remove all succeeded and the commit itself did not fail, and is
\* rolled back otherwise; a transaction is never committed after a failed
\* step, and once committed or rolled back it stays so.
C14_CommitIffAllSucceeded ==
  [][\A i \in Inv :
      /\ (Cardinality({ j \in Inv : qr[j] # 0 }) = nextHandle - 1)'
      /\ (\A j \in Inv : (j # i /\ qr[i] # 0) => qr[j] # qr[i])'
      /\ (qr[i] # 0 /\ StepFailed(i) => txState[qr[i]] # "committed")'
      /\ ((pc[i] = "done" /\ qr[i] # 0) =>
            /\ txState[qr[i]] = "committed" <=> (AllSucceeded(i) /\ ~CommitFailed(i))
            /\ txState[qr[i]] # "committed" => txState[qr[i]] = "rolledback")'
      /\ (qr[i] # 0 /\ txState[qr[i]] \in {"committed", "rolledback"}) =>
            (qr'[i] = qr[i] /\ txState'[qr[i]] = txState[qr[i]])]_vars

\* One invocation committed after all its steps succeeded, another had all
\* its steps succeed and was rolled back because the commit failed.
C14_Witness ==
  \E i, j \in Inv :
    /\ pc[i] = "done" /\ AllSucceeded(i) /\ txState[qr[i]] = "committed"
    /\ pc[j] = "done" /\ AllSucceeded(j) /\ CommitFailed(j)
    /\ txState[qr[j]] = "rolledback"

\* The hook call of i carries the caller's id and data; every publish call
\* carries the event, and every save / remove call the entity, that the hook
\* returned.
PassedThrough(i) ==
  /\ \A n \in Idx(i, "hook", "call") :
       calls[i][n].a = argId[i] /\ calls[i][n].b = argData[i]
  /\ \A n \in Idx(i, "publish", "call") :
       /\ Count(i, "hook", "ok") = 1
       /\ \A m \in Idx(i, "hook", "ok") : calls[i][n].a = calls[i][m].b
  /\ \A n \in Idx(i, "save", "call") \cup Idx(i, "remove", "call") :
       /\ Count(i, "hook", "ok") = 1
       /\ \A m \in Idx(i, "hook", "ok") : calls[i][n].a = calls[i][m].a

\* C15 - Pass-through: the hook receives the caller's data (create, update)
\* and id (update, delete) unchanged, publish receives the event the hook
\* returned, save / remove receive the entity the hook returned, and the
\* caller's arguments are not modified once the operation has been called.
C15_PassThrough ==
  [][\A i \in Inv :
      /\ PassedThrough(i)'
      /\ pc[i] # "idle" => (argId'[i] = argId[i] /\ argData'[i] = argData[i])]_vars

\* An update has passed its id and data to the hook, saved the hook's entity
\* and published the hook's event.
C15_Witness ==
  \E i \in Inv :
    /\ op[i] = "update" /\ pc[i] = "done"
    /\ argId[i] \in IdValues /\ argData[i] \in DataValues
    /\ Count(i, "hook", "call") = 1
    /\ Count(i, "save", "ok") = 1 /\ Count(i, "publish", "ok") = 1
    /\ PassedThrough(i)

\* C16 - Nothing is retried and nothing runs after a failure: an invocation
\* calls each of hook, publish, save and remove at most once, makes no call
\* after one of them has rejected, and an update whose save rejected never
\* calls publish.
C16_NoRetryNoContinue ==
  \A i \in Inv :
    /\ \A c \in {"hook", "publish", "save", "remove"} : Count(i, c, "call") <= 1
    /\ \A n \in DOMAIN calls[i] :
         (calls[i][n].c \in InTx /\ calls[i][n].k = "fail") =>
           \A m \in DOMAIN calls[i] : m > n => calls[i][m].k # "call"
    /\ (op[i] = "update" /\ Count(i, "save", "fail") > 0) =>
         Count(i, "publish", "call") = 0

\* An update's save has rejected and the invocation has finished.
C16_Witness ==
  \E i \in Inv :
    /\ op[i] = "update" /\ pc[i] = "done"
    /\ Count(i, "save", "fail") = 1
    /\ Count(i, "publish", "call") = 0

\* The transaction of i, if it was given one, is committed or rolled back.
TxClosed(i) == qr[i] # 0 => txState[qr[i]] \in {"committed", "rolledback"}

\* Invocation i has finished: its transaction is closed and its promise settled.
Finished(i) == pc[i] = "done" /\ TxClosed(i) /\ promise[i].st # "pending"

\* C17 - Under fair scheduling, and with every collaborator call eventually
\* resolving or rejecting, every started invocation eventually has its
\* transaction closed and its promise settled, also next to other
\* invocations: a finished invocation stays finished, and again and again
\* every invocation that has been started so far is finished.
C17_EventuallyClosed ==
  /\ [][\A i \in Inv : Finished(i) => Finished(i)']_vars
  /\ []<>(\A i \in Inv : pc[i] # "idle" => Finished(i))

\* Two invocations that were in flight together have both finished, one
\* committed and one rolled back, and both promises are settled.
C17_Witness ==
  \E i, j \in Inv :
    /\ pc[i] = "done" /\ qr[i] # 0 /\ txState[qr[i]] = "committed"
    /\ pc[j] = "done" /\ qr[j] # 0 /\ txState[qr[j]] = "rolledback"
    /\ i # j
    /\ promise[i].st # "pending" /\ promise[j].st # "pending"

====
